---- MODULE Spec2Model ----
(***************************************************************************)
(* Remote build orchestration of absconda (src/src/absconda/remote.py):    *)
(* the cross-process lock file (_RemoteLock), one build session per call   *)
(* (_RemoteSession.execute_build) and build_remote_image around them.      *)
(*                                                                         *)
(* Each process of Procs is one CLI invocation calling build_remote_image  *)
(* against the same definition (hence the same lock_file).  A process      *)
(* takes one step per system call or subprocess; the steps of different    *)
(* processes interleave freely.  Every subprocess may exit with zero or    *)
(* non-zero status.  When build_remote_image has returned or raised, the   *)
(* process exits (Exit); an exit touches nothing another process can see,  *)
(* so it is scheduled before any other step.                               *)
(***************************************************************************)
EXTENDS Integers, Sequences, FiniteSets, TLC

\* ------------------------------------------------------------------ bounds
NumProcs == 2          \* concurrent invocations sharing one lock_file
MaxWait == 2           \* largest wait_seconds tried (the caller passes > 0)
MaxDepth == 2          \* deepest nesting of lists and mappings in a configuration

\* ------------------------------------------------------- program constants
PollInterval == 2      \* time.sleep(2) between acquisition attempts

Procs == 1..NumProcs

VARIABLES
    defn,           \* RemoteBuilderDefinition: which optional commands are set
    args,           \* build_remote_image arguments: push, shutdown_after, wait_seconds
    lock,           \* the file at definition.lock_file
    pc,             \* pc[p]: where process p stands in build_remote_image
    acquired,       \* _RemoteLock._acquired
    notice_printed, \* local of _RemoteLock.__enter__
    notices,        \* how many times the busy notice was printed
    elapsed,        \* time.monotonic() - start, in seconds
    tarball_path,   \* _RemoteSession._tarball_path is set
    tarball_file,   \* the temporary archive exists on the local disk
    err,            \* the exception propagating in p ("none": no exception)
    owner,          \* the owner text put into the timeout message
    attempts,       \* passes of the __enter__ loop that reached os.open
    exit_result,    \* what __exit__ did: "unlinked", "absent" (FileNotFoundError)
    log,            \* subprocesses launched by p, in order, with their outcome
    warnings,       \* warnings printed on the console of p
    cli,            \* the `absconda build` command in front of build_remote_image
    ctl,            \* an operator's `absconda remote ...` command on the same builder
    conf            \* a reading of the remote configuration: its input and result

cfgVars == <<defn, args>>
lockVars == <<acquired, notice_printed, notices, elapsed, owner, attempts, exit_result>>
envVars == <<cli, ctl, conf>>
sessVars == <<tarball_path, tarball_file, log, warnings>>
vars == <<defn, args, lock, pc, acquired, notice_printed, notices, elapsed,
          tarball_path, tarball_file, err, owner, log, warnings,
          attempts, exit_result, cli, ctl, conf>>

\* ------------------------------------------------------------ the lock file
\* self._token = f"{hostname}:{pid}:{int(time.time())}": one per process.
Token(p) == "host:pid" \o ToString(p)

NoFile == [exists |-> FALSE, content |-> "", creator |-> 0]

\* Variant: O_EXCL dropped, so that an existing file is opened and reused.
CanCreateWithoutExcl == TRUE

\* Variant: a lock file whose creator is no longer running is taken over.
CanCreateOrReclaim == ~lock.exists \/ lock.creator = 0

\* os.open(path, O_CREAT | O_EXCL | O_WRONLY): succeeds only when no file is there.
CanCreateExclusive == ~lock.exists

\* Variant: the timeout message never names the owner.
ReadOwnerOmitted == ""

\* Path.read_text().strip(): the content, or OSError when the file is absent.
ReadOwner == IF lock.exists /\ lock.content # "" THEN lock.content ELSE ""

\* ---------------------------------------------------------------- commands
\* " && ".join(...) payloads handed to `bash -lc` over the remote shell: a payload
\* is the sequence of the chained steps, each run only if the one before it
\* succeeded; one record is one subprocess.
\* ssh_target is kept as its parts around '@': <<host>> or <<user, host>>.
\* defn.ssh_target.split('@')[1] if '@' in defn.ssh_target else defn.ssh_target
BareHost(target) == IF Len(target) > 1 THEN <<target[2]>> ELSE target

\* "project" in metadata and "zone" in metadata (metadata: the set of its keys).
UsesRelay(metadata) == "project" \in metadata /\ "zone" \in metadata

\* _remote_shell_command: gcloud compute ssh to the bare host for a relay
\* builder, ssh to ssh_target otherwise.
RemoteShellCommand(payload) ==
    IF UsesRelay(defn.metadata)
    THEN [tool |-> "gcloud compute ssh", target |-> BareHost(defn.ssh_target),
          payload |-> payload]
    ELSE [tool |-> "ssh", target |-> defn.ssh_target, payload |-> payload]

\* Variant: the archive is always copied with plain scp.
RemoteScpUploadPlainOnly ==
    [tool |-> "scp", target |-> defn.ssh_target, payload |-> <<"tarball", "remote_tar">>]

\* _remote_scp_upload: the same choice for the transfer of the archive.
RemoteScpUpload ==
    IF UsesRelay(defn.metadata)
    THEN [tool |-> "gcloud compute scp", target |-> BareHost(defn.ssh_target),
          payload |-> <<"tarball", "remote_tar">>]
    ELSE [tool |-> "scp", target |-> defn.ssh_target,
          payload |-> <<"tarball", "remote_tar">>]

EnsureWorkspaceCmd ==
    RemoteShellCommand(<<"set -euo pipefail", "mkdir -p workspace">>)

ExtractCmd ==
    RemoteShellCommand(<<"set -euo pipefail", "mkdir -p remote_dir",
                         "tar -xzf remote_tar -C remote_dir", "rm -f remote_tar">>)

\* Variant: the push step is appended whatever `push` says.
RunBuildCmdAlwaysPush(push) ==
    RemoteShellCommand(
        <<"set -euo pipefail", "cd remote_dir", "docker build -t image_ref",
          "docker push image_ref">>)

\* Variant: the push step is put in front of the build step.
RunBuildCmdPushFirst(push) ==
    RemoteShellCommand(
        IF push
        THEN <<"set -euo pipefail", "cd remote_dir", "docker push image_ref",
               "docker build -t image_ref">>
        ELSE <<"set -euo pipefail", "cd remote_dir", "docker build -t image_ref">>)

RunBuildCmd(push) ==
    RemoteShellCommand(
        IF push
        THEN <<"set -euo pipefail", "cd remote_dir", "docker build -t image_ref",
               "docker push image_ref">>
        ELSE <<"set -euo pipefail", "cd remote_dir", "docker build -t image_ref">>)

CleanupRemoteCmd == RemoteShellCommand(<<"rm -rf remote_dir remote_tar">>)

\* The commands of the definition run on the local machine as they are.
StartCmd == [tool |-> "local", target |-> <<>>, payload |-> <<"start_command">>]
StopCmd == [tool |-> "local", target |-> <<>>, payload |-> <<"stop_command">>]
ProvisionCmd == [tool |-> "local", target |-> <<>>, payload |-> <<"provision_command">>]
HealthCmd == [tool |-> "local", target |-> <<>>, payload |-> <<"health_command">>]
ProbeCmd == RemoteShellCommand(<<":">>)

\* _run_subprocess: the command is launched; ok is its exit status being zero.
\* A non-zero exit or a missing executable is raised as RemoteError.
RunSubprocess(p, step, cmd, ok) ==
    log' = [log EXCEPT ![p] = Append(@, [step |-> step, cmd |-> cmd, ok |-> ok])]

\* The class of the exception named by err: every failure the module raises
\* itself is a RemoteError; what tempfile, tarfile or json raise while the
\* archive is packaged is passed on as it is.
ErrKind(e) ==
    CASE e = "none" -> "none"
      [] e = "package" -> "OtherError"
      [] OTHER -> "RemoteError"

\* Process p stands at `position` and may take its next step: a process that
\* has left build_remote_image exits before any other process moves.
At(p, position) ==
    /\ \A q \in Procs : pc[q] # "returned"
    /\ ctl.pc # "done"
    /\ pc[p] = position

\* No `absconda build` front end and no `absconda remote` command is modelled.
NoCli ==
    [pc |-> "off", remote_builder |-> "None", remote_wait |-> 0, remote_off |-> FALSE,
     loaded |-> FALSE, warned |-> FALSE, code |-> "none"]
NoCtl ==
    [pc |-> "off", op |-> "", busy |-> FALSE, lock_owner |-> "None",
     unreadable |-> FALSE, reachable |-> FALSE, ssh_error |-> "None",
     health_ok |-> "None", health_error |-> "None", err |-> "none",
     settled |-> FALSE, log |-> <<>>]

\* ------------------------------------------------------------------- Init
\* No configuration is being read.
NoConf == [pc |-> "off"]

\* No invocation has started yet: every process is before its call.
Idle ==
    /\ pc = [p \in Procs |-> "idle"]
    /\ acquired = [p \in Procs |-> FALSE]
    /\ notice_printed = [p \in Procs |-> FALSE]
    /\ notices = [p \in Procs |-> 0]
    /\ elapsed = [p \in Procs |-> 0]
    /\ tarball_path = [p \in Procs |-> FALSE]
    /\ tarball_file = [p \in Procs |-> FALSE]
    /\ err = [p \in Procs |-> "none"]
    /\ owner = [p \in Procs |-> ""]
    /\ attempts = [p \in Procs |-> 0]
    /\ exit_result = [p \in Procs |-> ""]
    /\ log = [p \in Procs |-> <<>>]
    /\ warnings = [p \in Procs |-> {}]

\* No build has started and no configuration is being read.
Fresh == conf = NoConf /\ Idle

\* The definitions of a builder reached by plain ssh that has neither a
\* provision nor a health command; start and stop commands are optional.
PlainDefinitions ==
    [start_command : BOOLEAN, stop_command : BOOLEAN, provision_command : {FALSE},
     health_command : {FALSE}, metadata : {{}}, ssh_target : {<<"user", "host">>}]

Init ==
    /\ defn \in PlainDefinitions
    /\ args \in [push : BOOLEAN, shutdown_after : BOOLEAN, wait_seconds : 1..MaxWait]
    /\ lock = NoFile
    /\ Fresh
    /\ cli = NoCli
    /\ ctl = NoCtl

\* A fresh CLI invocation calls build_remote_image.
Invoke(p) ==
    /\ At(p, "idle")
    /\ pc' = [pc EXCEPT ![p] = "check_context"]
    /\ UNCHANGED <<cfgVars, envVars, lock, lockVars, sessVars, err>>

\* The process ends after build_remote_image returned or raised: nothing of
\* the invocation survives but the files it left.
Exit(p) ==
    /\ pc[p] = "returned"
    /\ pc' = [pc EXCEPT ![p] = "idle"]
    /\ acquired' = [acquired EXCEPT ![p] = FALSE]
    /\ notice_printed' = [notice_printed EXCEPT ![p] = FALSE]
    /\ notices' = [notices EXCEPT ![p] = 0]
    /\ elapsed' = [elapsed EXCEPT ![p] = 0]
    /\ tarball_path' = [tarball_path EXCEPT ![p] = FALSE]
    /\ tarball_file' = [tarball_file EXCEPT ![p] = FALSE]
    /\ err' = [err EXCEPT ![p] = "none"]
    /\ owner' = [owner EXCEPT ![p] = ""]
    /\ attempts' = [attempts EXCEPT ![p] = 0]
    /\ exit_result' = [exit_result EXCEPT ![p] = ""]
    /\ log' = [log EXCEPT ![p] = <<>>]
    /\ warnings' = [warnings EXCEPT ![p] = {}]
    /\ UNCHANGED <<cfgVars, envVars, lock>>

\* Variant: the context is looked at only after the lock file was created.
CheckContextUnderLock(p) ==
    /\ At(p, "check_context")
    /\ \E exists \in BOOLEAN :
          IF exists
          THEN /\ pc' = [pc EXCEPT ![p] = "try"]
               /\ UNCHANGED <<err, lock, attempts>>
          ELSE /\ pc' = [pc EXCEPT ![p] = "returned"]
               /\ err' = [err EXCEPT ![p] = "context_missing"]
               /\ attempts' = [attempts EXCEPT ![p] = @ + 1]
               /\ lock' = IF lock.exists THEN lock
                          ELSE [exists |-> TRUE, content |-> "", creator |-> p]
    /\ UNCHANGED <<cfgVars, envVars, acquired, notice_printed, notices, elapsed, owner,
                   exit_result, sessVars>>

\* build_remote_image, lines 214-216: the context directory must exist.
CheckContext(p) ==
    /\ At(p, "check_context")
    /\ \E exists \in BOOLEAN :
          IF exists
          THEN /\ pc' = [pc EXCEPT ![p] = "try"]
               /\ UNCHANGED err
          ELSE /\ pc' = [pc EXCEPT ![p] = "returned"]
               /\ err' = [err EXCEPT ![p] = "context_missing"]
    /\ UNCHANGED <<cfgVars, envVars, lock, lockVars, sessVars>>

\* ------------------------------------------------- _RemoteLock.__enter__
\* One pass of the loop up to os.open: create the file exclusively, or
\* FileExistsError.
TryCreate(p) ==
    /\ At(p, "try")
    /\ IF CanCreateExclusive
       THEN /\ lock' = [exists |-> TRUE, content |-> "", creator |-> p]
            /\ pc' = [pc EXCEPT ![p] = "write_token"]
       ELSE /\ pc' = [pc EXCEPT ![p] = "busy"]
            /\ UNCHANGED lock
    /\ attempts' = [attempts EXCEPT ![p] = @ + 1]
    /\ UNCHANGED <<cfgVars, envVars, acquired, notice_printed, notices, elapsed, owner,
                   exit_result, sessVars, err>>

\* handle.write(self._token); self._acquired = True; return self.
WriteToken(p) ==
    /\ At(p, "write_token")
    /\ lock' = IF lock.exists /\ lock.creator = p
               THEN [lock EXCEPT !.content = Token(p)]
               ELSE lock
    /\ acquired' = [acquired EXCEPT ![p] = TRUE]
    /\ pc' = [pc EXCEPT ![p] = "start"]
    /\ UNCHANGED <<cfgVars, envVars, notice_printed, notices, elapsed, owner, attempts,
                   exit_result, sessVars, err>>

\* Variant: the first failed attempt already raises the timeout.
BusyImpatient(p) ==
    /\ At(p, "busy")
    /\ notices' = [notices EXCEPT ![p] = IF notice_printed[p] THEN @ ELSE @ + 1]
    /\ notice_printed' = [notice_printed EXCEPT ![p] = TRUE]
    /\ pc' = [pc EXCEPT ![p] = "timeout_read"]
    /\ UNCHANGED <<cfgVars, envVars, lock, acquired, elapsed, owner, attempts,
                   exit_result, sessVars, err>>

\* Variant: the notice is printed at every failed attempt.
BusyNoticeEveryPoll(p) ==
    /\ At(p, "busy")
    /\ notices' = [notices EXCEPT ![p] = @ + 1]
    /\ notice_printed' = [notice_printed EXCEPT ![p] = TRUE]
    /\ pc' = [pc EXCEPT ![p] =
                IF elapsed[p] >= args.wait_seconds THEN "timeout_read" ELSE "sleep"]
    /\ UNCHANGED <<cfgVars, envVars, lock, acquired, elapsed, owner, attempts,
                   exit_result, sessVars, err>>

\* except FileExistsError: the one-time notice, then the budget test.
Busy(p) ==
    /\ At(p, "busy")
    /\ notices' = [notices EXCEPT ![p] = IF notice_printed[p] THEN @ ELSE @ + 1]
    /\ notice_printed' = [notice_printed EXCEPT ![p] = TRUE]
    /\ pc' = [pc EXCEPT ![p] =
                IF elapsed[p] >= args.wait_seconds THEN "timeout_read" ELSE "sleep"]
    /\ UNCHANGED <<cfgVars, envVars, lock, acquired, elapsed, owner, attempts,
                   exit_result, sessVars, err>>

\* time.sleep(2), then the next pass of the loop.
Sleep(p) ==
    /\ At(p, "sleep")
    /\ elapsed' = [elapsed EXCEPT ![p] = @ + PollInterval]
    /\ pc' = [pc EXCEPT ![p] = "try"]
    /\ UNCHANGED <<cfgVars, envVars, lock, acquired, notice_printed, notices, owner, attempts,
                   exit_result, sessVars, err>>

\* Variant: a waiter that times out takes the lock file for stale and removes it.
TimeoutReadBreakingLock(p) ==
    /\ At(p, "timeout_read")
    /\ owner' = [owner EXCEPT ![p] = ReadOwner]
    /\ err' = [err EXCEPT ![p] = "lock_timeout"]
    /\ lock' = NoFile
    /\ pc' = [pc EXCEPT ![p] = "returned"]
    /\ UNCHANGED <<cfgVars, envVars, acquired, notice_printed, notices, elapsed, attempts,
                   exit_result, sessVars>>

\* The best-effort read of the owner and raise RemoteError("Timed out ...").
\* __enter__ raised, so __exit__ is not run.
TimeoutRead(p) ==
    /\ At(p, "timeout_read")
    /\ owner' = [owner EXCEPT ![p] = ReadOwner]
    /\ err' = [err EXCEPT ![p] = "lock_timeout"]
    /\ pc' = [pc EXCEPT ![p] = "returned"]
    /\ UNCHANGED <<cfgVars, envVars, lock, acquired, notice_printed, notices, elapsed, attempts,
                   exit_result, sessVars>>

\* ------------------------------------- build_remote_image, inside `with`
\* Variant: the settle wait after the start command is dropped.
StartBuilderNoSettle(p) ==
    /\ At(p, "start")
    /\ IF defn.start_command
       THEN \E ok \in BOOLEAN :
               /\ RunSubprocess(p, "start", StartCmd, ok)
               /\ IF ok
                  THEN /\ pc' = [pc EXCEPT ![p] = "package"]
                       /\ UNCHANGED err
                  ELSE /\ pc' = [pc EXCEPT ![p] = "lock_exit"]
                       /\ err' = [err EXCEPT ![p] = "start"]
       ELSE /\ pc' = [pc EXCEPT ![p] = "package"]
            /\ UNCHANGED <<log, err>>
    /\ UNCHANGED <<cfgVars, envVars, lock, lockVars, tarball_path, tarball_file, warnings>>

\* Lines 223-224 and start_remote_builder: run the start command when the
\* definition has one.
StartBuilder(p) ==
    /\ At(p, "start")
    /\ IF defn.start_command
       THEN \E ok \in BOOLEAN :
               /\ RunSubprocess(p, "start", StartCmd, ok)
               /\ IF ok
                  THEN /\ pc' = [pc EXCEPT ![p] = "settle"]
                       /\ UNCHANGED err
                  ELSE /\ pc' = [pc EXCEPT ![p] = "lock_exit"]
                       /\ err' = [err EXCEPT ![p] = "start"]
       ELSE /\ pc' = [pc EXCEPT ![p] = "package"]
            /\ UNCHANGED <<log, err>>
    /\ UNCHANGED <<cfgVars, envVars, lock, lockVars, tarball_path, tarball_file, warnings>>

\* time.sleep(30) at the end of start_remote_builder.
Settle(p) ==
    /\ At(p, "settle")
    /\ pc' = [pc EXCEPT ![p] = "package"]
    /\ UNCHANGED <<cfgVars, envVars, lock, lockVars, sessVars, err>>

\* ------------------------------------------ _RemoteSession.execute_build
\* self._tarball_path = _create_context_tarball(...).  The temporary file is
\* created first (NamedTemporaryFile(delete=False)) and filled afterwards;
\* the path is assigned to the session only when the whole call returns.
\*   "ok":      the archive is written and its path returned;
\*   "no_file": the call raises before the temporary file exists;
\*   "partial": the call raises while the archive is being written.
Package(p) ==
    /\ At(p, "package")
    /\ \E outcome \in {"ok", "no_file", "partial"} :
          /\ tarball_file' = [tarball_file EXCEPT ![p] = outcome # "no_file"]
          /\ tarball_path' = [tarball_path EXCEPT ![p] = outcome = "ok"]
          /\ IF outcome = "ok"
             THEN /\ pc' = [pc EXCEPT ![p] = "ensure_workspace"]
                  /\ UNCHANGED err
             ELSE /\ pc' = [pc EXCEPT ![p] = "cleanup_local"]
                  /\ err' = [err EXCEPT ![p] = "package"]
    /\ UNCHANGED <<cfgVars, envVars, lock, lockVars, log, warnings>>

\* self._ensure_workspace(): outside the try, a failure leaves execute_build
\* at once.
EnsureWorkspace(p) ==
    /\ At(p, "ensure_workspace")
    /\ \E ok \in BOOLEAN :
          /\ RunSubprocess(p, "ensure_workspace", EnsureWorkspaceCmd, ok)
          /\ IF ok
             THEN /\ pc' = [pc EXCEPT ![p] = "upload"]
                  /\ UNCHANGED err
             ELSE /\ pc' = [pc EXCEPT ![p] = "cleanup_local"]
                  /\ err' = [err EXCEPT ![p] = "ensure_workspace"]
    /\ UNCHANGED <<cfgVars, envVars, lock, lockVars, tarball_path, tarball_file, warnings>>

\* Variant: the exit status of the upload is not looked at.
UploadTarballUngated(p) ==
    /\ At(p, "upload")
    /\ \E ok \in BOOLEAN :
          RunSubprocess(p, "upload", RemoteScpUpload, ok)
    /\ pc' = [pc EXCEPT ![p] = "extract"]
    /\ UNCHANGED <<cfgVars, envVars, lock, lockVars, tarball_path, tarball_file, warnings,
                   err>>

\* Variant: a failed upload is tried a second time.
UploadTarballRetrying(p) ==
    /\ At(p, "upload")
    /\ \E ok \in BOOLEAN :
          /\ RunSubprocess(p, "upload", RemoteScpUpload, ok)
          /\ IF ok
             THEN /\ pc' = [pc EXCEPT ![p] = "extract"]
                  /\ UNCHANGED err
             ELSE IF \A i \in 1..Len(log[p]) : log[p][i].step # "upload"
             THEN UNCHANGED <<pc, err>>
             ELSE /\ pc' = [pc EXCEPT ![p] = "cleanup_local"]
                  /\ err' = [err EXCEPT ![p] = "upload"]
    /\ UNCHANGED <<cfgVars, envVars, lock, lockVars, tarball_path, tarball_file, warnings>>

\* self._upload_tarball(): outside the try as well.
UploadTarball(p) ==
    /\ At(p, "upload")
    /\ \E ok \in BOOLEAN :
          /\ RunSubprocess(p, "upload", RemoteScpUpload, ok)
          /\ IF ok
             THEN /\ pc' = [pc EXCEPT ![p] = "extract"]
                  /\ UNCHANGED err
             ELSE /\ pc' = [pc EXCEPT ![p] = "cleanup_local"]
                  /\ err' = [err EXCEPT ![p] = "upload"]
    /\ UNCHANGED <<cfgVars, envVars, lock, lockVars, tarball_path, tarball_file, warnings>>

\* try: self._extract_context()
ExtractContext(p) ==
    /\ At(p, "extract")
    /\ \E ok \in BOOLEAN :
          /\ RunSubprocess(p, "extract", ExtractCmd, ok)
          /\ IF ok
             THEN /\ pc' = [pc EXCEPT ![p] = "build"]
                  /\ UNCHANGED err
             ELSE /\ pc' = [pc EXCEPT ![p] = "cleanup_remote"]
                  /\ err' = [err EXCEPT ![p] = "extract"]
    /\ UNCHANGED <<cfgVars, envVars, lock, lockVars, tarball_path, tarball_file, warnings>>

\* self._run_build(image_ref, push)
RunBuild(p) ==
    /\ At(p, "build")
    /\ \E ok \in BOOLEAN :
          /\ RunSubprocess(p, "build", RunBuildCmd(args.push), ok)
          /\ pc' = [pc EXCEPT ![p] = "cleanup_remote"]
          /\ err' = [err EXCEPT ![p] = IF ok THEN @ ELSE "build"]
    /\ UNCHANGED <<cfgVars, envVars, lock, lockVars, tarball_path, tarball_file, warnings>>

\* Variant: a failing cleanup command raises and replaces the pending exception.
CleanupRemoteRaising(p) ==
    /\ At(p, "cleanup_remote")
    /\ \E ok \in BOOLEAN :
          /\ RunSubprocess(p, "cleanup_remote", CleanupRemoteCmd, ok)
          /\ err' = [err EXCEPT ![p] = IF ok THEN @ ELSE "cleanup_remote"]
    /\ pc' = [pc EXCEPT ![p] = "session_stop"]
    /\ UNCHANGED <<cfgVars, envVars, lock, lockVars, tarball_path, tarball_file, warnings>>

\* finally: self._cleanup_remote(): RemoteError is caught and printed as a
\* warning; the exception of the try body, if any, stays pending.
CleanupRemote(p) ==
    /\ At(p, "cleanup_remote")
    /\ \E ok \in BOOLEAN :
          /\ RunSubprocess(p, "cleanup_remote", CleanupRemoteCmd, ok)
          /\ warnings' = [warnings EXCEPT ![p] =
                             IF ok THEN @ ELSE @ \cup {"cleanup_failed"}]
    /\ pc' = [pc EXCEPT ![p] = "session_stop"]
    /\ UNCHANGED <<cfgVars, envVars, lock, lockVars, tarball_path, tarball_file, err>>

\* Still in the finally block: the stop command.  _run_subprocess raises
\* RemoteError, which `except (subprocess.CalledProcessError, OSError)` does not
\* catch: the RemoteError leaves the finally block and replaces a pending
\* exception.
SessionStop(p) ==
    /\ At(p, "session_stop")
    /\ IF defn.stop_command
       THEN \E ok \in BOOLEAN :
               /\ RunSubprocess(p, "session_stop", StopCmd, ok)
               /\ err' = [err EXCEPT ![p] = IF ok THEN @ ELSE "session_stop"]
       ELSE UNCHANGED <<log, err>>
    /\ pc' = [pc EXCEPT ![p] = "cleanup_local"]
    /\ UNCHANGED <<cfgVars, envVars, lock, lockVars, tarball_path, tarball_file, warnings>>

\* finally: session.cleanup_local(): unlink the archive when the session knows
\* its path and the file exists; then the pending exception, if any, goes on.
CleanupLocal(p) ==
    /\ At(p, "cleanup_local")
    /\ tarball_file' = [tarball_file EXCEPT ![p] =
                           IF tarball_path[p] /\ @ THEN FALSE ELSE @]
    /\ pc' = [pc EXCEPT ![p] = IF err[p] = "none" THEN "shutdown" ELSE "lock_exit"]
    /\ UNCHANGED <<cfgVars, envVars, lock, lockVars, tarball_path, log, warnings, err>>

\* Lines 232-244: if shutdown_after, run the stop command (its failure is
\* raised) or warn that none is configured.
Shutdown(p) ==
    /\ At(p, "shutdown")
    /\ IF args.shutdown_after
       THEN IF defn.stop_command
            THEN \E ok \in BOOLEAN :
                    /\ RunSubprocess(p, "shutdown_stop", StopCmd, ok)
                    /\ err' = [err EXCEPT ![p] = IF ok THEN @ ELSE "shutdown_stop"]
                    /\ UNCHANGED warnings
            ELSE /\ warnings' = [warnings EXCEPT ![p] = @ \cup {"no_stop_command"}]
                 /\ UNCHANGED <<log, err>>
       ELSE UNCHANGED <<log, err, warnings>>
    /\ pc' = [pc EXCEPT ![p] = "lock_exit"]
    /\ UNCHANGED <<cfgVars, envVars, lock, lockVars, tarball_path, tarball_file>>

\* self._path.unlink() in __exit__: the file is removed, or FileNotFoundError
\* is raised and passed over; nothing is tried when the lock was not acquired.
UnlinkResult(p) ==
    IF ~acquired[p] THEN "not_acquired"
    ELSE IF lock.exists THEN "unlinked" ELSE "absent"

\* Variant: the lock file is removed on the success path only.
LockExitOnSuccessOnly(p) ==
    /\ At(p, "lock_exit")
    /\ lock' = IF acquired[p] /\ lock.exists /\ err[p] = "none" THEN NoFile ELSE lock
    /\ exit_result' = [exit_result EXCEPT ![p] = UnlinkResult(p)]
    /\ pc' = [pc EXCEPT ![p] = "returned"]
    /\ UNCHANGED <<cfgVars, envVars, acquired, notice_printed, notices, elapsed, owner, attempts,
                   sessVars, err>>

\* Variant: the shutdown_after stop command is launched after the release.
LockExitThenStop(p) ==
    /\ At(p, "lock_exit")
    /\ lock' = IF acquired[p] /\ lock.exists THEN NoFile ELSE lock
    /\ IF args.shutdown_after /\ defn.stop_command
       THEN RunSubprocess(p, "shutdown_stop", StopCmd, TRUE)
       ELSE UNCHANGED log
    /\ exit_result' = [exit_result EXCEPT ![p] = UnlinkResult(p)]
    /\ pc' = [pc EXCEPT ![p] = "returned"]
    /\ UNCHANGED <<cfgVars, envVars, acquired, notice_printed, notices, elapsed, owner, attempts,
                   tarball_path, tarball_file, warnings, err>>

\* Variant: an unlink of a file that is already gone is raised to the caller.
LockExitRaisingOnAbsent(p) ==
    /\ At(p, "lock_exit")
    /\ lock' = IF acquired[p] /\ lock.exists THEN NoFile ELSE lock
    /\ exit_result' = [exit_result EXCEPT ![p] = UnlinkResult(p)]
    /\ err' = [err EXCEPT ![p] = IF acquired[p] /\ ~lock.exists
                                 THEN "unlink_missing" ELSE @]
    /\ pc' = [pc EXCEPT ![p] = "returned"]
    /\ UNCHANGED <<cfgVars, envVars, acquired, notice_printed, notices, elapsed, owner, attempts,
                   sessVars>>

\* _RemoteLock.__exit__: if self._acquired, unlink the path (FileNotFoundError
\* is ignored); the pending exception, if any, reaches the caller.
LockExit(p) ==
    /\ At(p, "lock_exit")
    /\ lock' = IF acquired[p] /\ lock.exists THEN NoFile ELSE lock
    /\ exit_result' = [exit_result EXCEPT ![p] = UnlinkResult(p)]
    /\ pc' = [pc EXCEPT ![p] = "returned"]
    /\ UNCHANGED <<cfgVars, envVars, acquired, notice_printed, notices, elapsed, owner, attempts,
                   sessVars, err>>

\* One step of process p inside build_remote_image.
SessionStep(p) ==
        \/ CheckContext(p)
        \/ TryCreate(p)
        \/ WriteToken(p)
        \/ Busy(p)
        \/ Sleep(p)
        \/ TimeoutRead(p)
        \/ StartBuilder(p)
        \/ Settle(p)
        \/ Package(p)
        \/ EnsureWorkspace(p)
        \/ UploadTarball(p)
        \/ ExtractContext(p)
        \/ RunBuild(p)
        \/ CleanupRemote(p)
        \/ SessionStop(p)
        \/ CleanupLocal(p)
        \/ Shutdown(p)
        \/ LockExit(p)

\* One step of process p: its call of build_remote_image, a step inside, or
\* its exit.
BuildStep(p) ==
        \/ Exit(p)
        \/ Invoke(p)
        \/ SessionStep(p)

Next == \E p \in Procs : BuildStep(p)

Spec == Init /\ [][Next]_vars

\* Two invocations that the operating system keeps running: neither stops in
\* the middle of build_remote_image for ever.  A step waits only while the
\* other process is exiting, so it is enabled again and again: strong fairness.
Pair == {1, 2}

NextPair == \E p \in Pair : BuildStep(p)

SpecPairFair ==
    Init /\ [][NextPair]_vars /\ \A p \in Pair : SF_vars(BuildStep(p))

\* An operator removes the lock file by hand (rm) while builds may be running.
OperatorRemove ==
    /\ \A q \in Procs : pc[q] # "returned"
    /\ lock.exists
    /\ lock' = NoFile
    /\ UNCHANGED <<cfgVars, envVars, pc, lockVars, sessVars, err>>

\* Two builds beside the operator.
NextRelease == NextPair \/ OperatorRemove

SpecRelease == Init /\ [][NextRelease]_vars

\* One build at a time beside the operator.
Solo == {1}

\* The process is killed after it created the lock file and before __exit__
\* ran: nothing of it survives but the lock file, which no running process
\* has created any more.
Crash(p) ==
    /\ \A q \in Procs : pc[q] # "returned"
    /\ pc[p] = "write_token" \/ acquired[p]
    /\ lock' = IF lock.creator = p THEN [lock EXCEPT !.creator = 0] ELSE lock
    /\ pc' = [pc EXCEPT ![p] = "idle"]
    /\ acquired' = [acquired EXCEPT ![p] = FALSE]
    /\ notice_printed' = [notice_printed EXCEPT ![p] = FALSE]
    /\ notices' = [notices EXCEPT ![p] = 0]
    /\ elapsed' = [elapsed EXCEPT ![p] = 0]
    /\ tarball_path' = [tarball_path EXCEPT ![p] = FALSE]
    /\ tarball_file' = [tarball_file EXCEPT ![p] = FALSE]
    /\ err' = [err EXCEPT ![p] = "none"]
    /\ owner' = [owner EXCEPT ![p] = ""]
    /\ attempts' = [attempts EXCEPT ![p] = 0]
    /\ exit_result' = [exit_result EXCEPT ![p] = ""]
    /\ log' = [log EXCEPT ![p] = <<>>]
    /\ warnings' = [warnings EXCEPT ![p] = {}]
    /\ UNCHANGED <<cfgVars, envVars>>

\* Builds one after the other on the same lock_file, any of which may be
\* killed, and an operator who may remove the lock file.
NextCrash ==
    \/ \E p \in Solo : BuildStep(p)
    \/ \E p \in Solo : Crash(p)
    \/ OperatorRemove

SpecCrash == Init /\ [][NextCrash]_vars

\* A lock file left behind by an earlier run on another machine.
StaleFile == [exists |-> TRUE, content |-> "runner@example", creator |-> 0]

InitOperator ==
    /\ defn \in PlainDefinitions
    /\ args \in [push : BOOLEAN, shutdown_after : BOOLEAN, wait_seconds : 1..MaxWait]
    /\ lock \in {NoFile, StaleFile}
    /\ Fresh
    /\ cli = NoCli
    /\ ctl = NoCtl

NextOperator == (\E p \in Solo : BuildStep(p)) \/ OperatorRemove

SpecOperator == InitOperator /\ [][NextOperator]_vars

\* ------------------------------------------- `absconda remote` operations
\* What subprocess.run can do with a command: exit with zero, exit with
\* non-zero (CalledProcessError), or find no executable (FileNotFoundError).
Outcomes == {"ok", "nonzero", "missing"}

\* Variant: only a non-zero exit is converted to RemoteError.
RaisedUnconverted(outcome) ==
    CASE outcome = "ok" -> "none"
      [] outcome = "nonzero" -> "RemoteError"
      [] OTHER -> "FileNotFoundError"

\* _run_subprocess: both failures are raised as RemoteError.
Raised(outcome) == IF outcome = "ok" THEN "none" ELSE "RemoteError"

\* str(exc) of the RemoteError raised by _run_subprocess.
Diagnostic(outcome) ==
    IF outcome = "missing" THEN "command not found" ELSE "failed with exit code"

\* The controller stands at `position` and may take its next step; a finished
\* command exits before anything else moves.
CtlAt(position) ==
    /\ \A q \in Procs : pc[q] # "returned"
    /\ ctl.pc = position

CtlLaunched(step, cmd, outcome) ==
    Append(ctl.log, [step |-> step, cmd |-> cmd, outcome |-> outcome])

\* Variant: the builder counts as busy only when the lock file names an owner.
StatusExistsOwnedOnly ==
    /\ CtlAt("off")
    /\ ctl' = [NoCtl EXCEPT !.op = "status",
                            !.busy = (lock.exists /\ lock.content # ""),
                            !.pc = IF lock.exists THEN "read" ELSE "probe"]
    /\ UNCHANGED <<cfgVars, cli, conf, lock, pc, lockVars, sessVars, err>>

\* check_remote_status, line 118: busy = lock_path.exists().
StatusExists ==
    /\ CtlAt("off")
    /\ ctl' = [NoCtl EXCEPT !.op = "status", !.busy = lock.exists,
                            !.pc = IF lock.exists THEN "read" ELSE "probe"]
    /\ UNCHANGED <<cfgVars, cli, conf, lock, pc, lockVars, sessVars, err>>

\* Variant: a lock file found without an owner is taken for stale and removed.
StatusReadRemovingUnowned ==
    /\ CtlAt("read")
    /\ \E unreadable \in (IF lock.exists THEN BOOLEAN ELSE {FALSE}) :
          ctl' = [ctl EXCEPT !.unreadable = unreadable,
                             !.lock_owner = IF unreadable \/ ReadOwner = ""
                                            THEN "None" ELSE ReadOwner,
                             !.pc = "probe"]
    /\ lock' = IF lock.exists /\ lock.content = "" THEN NoFile ELSE lock
    /\ UNCHANGED <<cfgVars, cli, conf, pc, lockVars, sessVars, err>>

\* check_remote_status, lines 120-125: read_text().strip() or None; an OSError
\* (file gone meanwhile, or not readable) leaves lock_owner None.
StatusRead ==
    /\ CtlAt("read")
    /\ \E unreadable \in (IF lock.exists THEN BOOLEAN ELSE {FALSE}) :
          ctl' = [ctl EXCEPT !.unreadable = unreadable,
                             !.lock_owner = IF unreadable \/ ReadOwner = ""
                                            THEN "None" ELSE ReadOwner,
                             !.pc = "probe"]
    /\ UNCHANGED <<cfgVars, cli, conf, lock, pc, lockVars, sessVars, err>>

\* check_remote_status, lines 127-133: the probe `:` over the remote shell;
\* only RemoteError is caught.
StatusProbe ==
    /\ CtlAt("probe")
    /\ \E outcome \in Outcomes :
          LET e == Raised(outcome)
              launched == CtlLaunched("probe", ProbeCmd, outcome)
          IN  ctl' = CASE e = "none" ->
                            [ctl EXCEPT !.reachable = TRUE, !.log = launched,
                                        !.pc = "health"]
                       [] e = "RemoteError" ->
                            [ctl EXCEPT !.ssh_error = Diagnostic(outcome),
                                        !.log = launched, !.pc = "health"]
                       [] OTHER ->
                            [ctl EXCEPT !.err = e, !.log = launched, !.pc = "done"]
    /\ UNCHANGED <<cfgVars, cli, conf, lock, pc, lockVars, sessVars, err>>

\* check_remote_status, lines 135-154: the health command, if there is one,
\* and the return of the RemoteStatus.
StatusHealth ==
    /\ CtlAt("health")
    /\ IF ~defn.health_command
       THEN ctl' = [ctl EXCEPT !.pc = "done"]
       ELSE \E outcome \in Outcomes :
              LET e == Raised(outcome)
                  launched == CtlLaunched("health", HealthCmd, outcome)
              IN  ctl' = CASE e = "none" ->
                                [ctl EXCEPT !.health_ok = "True", !.log = launched,
                                            !.pc = "done"]
                           [] e = "RemoteError" ->
                                [ctl EXCEPT !.health_ok = "False",
                                            !.health_error = Diagnostic(outcome),
                                            !.log = launched, !.pc = "done"]
                           [] OTHER ->
                                [ctl EXCEPT !.err = e, !.log = launched, !.pc = "done"]
    /\ UNCHANGED <<cfgVars, cli, conf, lock, pc, lockVars, sessVars, err>>

\* provision_remote_builder, lines 90-96.
ProvisionRemoteBuilder ==
    /\ CtlAt("off")
    /\ IF ~defn.provision_command
       THEN ctl' = [NoCtl EXCEPT !.op = "provision", !.err = "RemoteConfigError",
                                !.pc = "done"]
       ELSE \E outcome \in Outcomes :
              ctl' = [NoCtl EXCEPT !.op = "provision",
                                   !.log = CtlLaunched("provision", ProvisionCmd, outcome),
                                   !.err = Raised(outcome), !.pc = "done"]
    /\ UNCHANGED <<cfgVars, cli, conf, lock, pc, lockVars, sessVars, err>>

\* Variant: without a start_command the operation returns having done nothing.
StartRemoteBuilderSilent ==
    /\ CtlAt("off")
    /\ IF ~defn.start_command
       THEN ctl' = [NoCtl EXCEPT !.op = "start", !.pc = "done"]
       ELSE \E outcome \in Outcomes :
              ctl' = [NoCtl EXCEPT !.op = "start",
                                   !.log = CtlLaunched("start", StartCmd, outcome),
                                   !.err = Raised(outcome),
                                   !.settled = (Raised(outcome) = "none"),
                                   !.pc = "done"]
    /\ UNCHANGED <<cfgVars, cli, conf, lock, pc, lockVars, sessVars, err>>

\* start_remote_builder, lines 99-106: time.sleep(30) after the command
\* succeeded.
StartRemoteBuilder ==
    /\ CtlAt("off")
    /\ IF ~defn.start_command
       THEN ctl' = [NoCtl EXCEPT !.op = "start", !.err = "RemoteConfigError",
                                !.pc = "done"]
       ELSE \E outcome \in Outcomes :
              ctl' = [NoCtl EXCEPT !.op = "start",
                                   !.log = CtlLaunched("start", StartCmd, outcome),
                                   !.err = Raised(outcome),
                                   !.settled = (Raised(outcome) = "none"),
                                   !.pc = "done"]
    /\ UNCHANGED <<cfgVars, cli, conf, lock, pc, lockVars, sessVars, err>>

\* stop_remote_builder, lines 109-113.
StopRemoteBuilder ==
    /\ CtlAt("off")
    /\ IF ~defn.stop_command
       THEN ctl' = [NoCtl EXCEPT !.op = "stop", !.err = "RemoteConfigError",
                                !.pc = "done"]
       ELSE \E outcome \in Outcomes :
              ctl' = [NoCtl EXCEPT !.op = "stop",
                                   !.log = CtlLaunched("stop", StopCmd, outcome),
                                   !.err = Raised(outcome), !.pc = "done"]
    /\ UNCHANGED <<cfgVars, cli, conf, lock, pc, lockVars, sessVars, err>>

\* The `absconda remote` command ends.
CtlExit ==
    /\ ctl.pc = "done"
    /\ ctl' = NoCtl
    /\ UNCHANGED <<cfgVars, cli, conf, lock, pc, lockVars, sessVars, err>>

\* Every definition: each optional command present or not, any subset of the
\* two metadata keys, ssh_target with or without a user.
AllDefinitions ==
    [start_command : BOOLEAN, stop_command : BOOLEAN, provision_command : BOOLEAN,
     health_command : BOOLEAN, metadata : SUBSET {"project", "zone"},
     ssh_target : {<<"host">>, <<"user", "host">>}]

\* The `absconda remote` commands alone, no build running.
InitControl ==
    /\ defn \in AllDefinitions
    /\ args \in [push : {FALSE}, shutdown_after : {FALSE}, wait_seconds : {1}]
    /\ lock \in {NoFile, StaleFile}
    /\ Fresh
    /\ cli = NoCli
    /\ ctl = NoCtl

NextControl ==
    \/ StatusExists
    \/ StatusRead
    \/ StatusProbe
    \/ StatusHealth
    \/ ProvisionRemoteBuilder
    \/ StartRemoteBuilder
    \/ StopRemoteBuilder
    \/ CtlExit

SpecControl == InitControl /\ [][NextControl]_vars

\* `absconda remote status` called again and again while one build runs.
InitHost ==
    /\ defn \in {d \in AllDefinitions : ~d.stop_command /\ ~d.provision_command}
    /\ args \in [push : {TRUE}, shutdown_after : {FALSE}, wait_seconds : 1..MaxWait]
    /\ lock \in {NoFile, StaleFile}
    /\ Fresh
    /\ cli = NoCli
    /\ ctl = NoCtl

NextHost ==
    \/ \E p \in Solo : BuildStep(p)
    \/ StatusExists
    \/ StatusRead
    \/ StatusProbe
    \/ StatusHealth
    \/ CtlExit

SpecHost == InitHost /\ [][NextHost]_vars

\* ------------------------------------------------------ `absconda build`
\* Variant: the wait budget is handed on without being looked at.
ResolveRemoteOptionsUnchecked ==
    /\ cli.pc = "resolve"
    /\ cli' = IF cli.remote_builder = "None"
              THEN [cli EXCEPT !.warned = cli.remote_off, !.pc = "local"]
              ELSE [cli EXCEPT !.pc = "load"]
    /\ UNCHANGED <<cfgVars, ctl, conf, lock, pc, lockVars, sessVars, err>>

\* _resolve_remote_options, cli.py lines 237-260: no remote builder, no remote
\* build (--remote-off is then ignored with a warning); a wait budget that is
\* not positive ends the command with exit code 1.
ResolveRemoteOptions ==
    /\ cli.pc = "resolve"
    /\ cli' = IF cli.remote_builder = "None"
              THEN [cli EXCEPT !.warned = cli.remote_off, !.pc = "local"]
              ELSE IF cli.remote_wait <= 0
              THEN [cli EXCEPT !.code = "1", !.pc = "done"]
              ELSE [cli EXCEPT !.pc = "load"]
    /\ UNCHANGED <<cfgVars, ctl, conf, lock, pc, lockVars, sessVars, err>>

\* _build_image_remote, cli.py lines 377-380 and 392-394: the definition is
\* loaded; a RemoteConfigError ends the command with exit code 1.
LoadRemoteDefinition ==
    /\ cli.pc = "load"
    /\ \E found \in BOOLEAN :
          cli' = IF found
                 THEN [cli EXCEPT !.loaded = TRUE, !.pc = "build"]
                 ELSE [cli EXCEPT !.loaded = TRUE, !.code = "1", !.pc = "done"]
    /\ UNCHANGED <<cfgVars, ctl, conf, lock, pc, lockVars, sessVars, err>>

\* _build_image_remote, cli.py lines 381-391: build_remote_image is called with
\* the resolved options.
CallBuildRemoteImage ==
    /\ cli.pc = "build"
    /\ pc[1] = "idle"
    /\ cli' = [cli EXCEPT !.pc = "running"]
    /\ pc' = [pc EXCEPT ![1] = "check_context"]
    /\ UNCHANGED <<cfgVars, ctl, conf, lock, lockVars, sessVars, err>>

\* _build_image_remote, cli.py lines 392-399: a RemoteConfigError or RemoteError
\* of the build ends the command with exit code 1; anything else it raised
\* ends it as an uncaught exception, with exit code 1 as well.
BuildReturned ==
    /\ cli.pc = "running"
    /\ pc[1] = "returned"
    /\ cli' = [cli EXCEPT !.code = IF err[1] = "none" THEN "0" ELSE "1", !.pc = "done"]
    /\ UNCHANGED <<cfgVars, ctl, conf, lock, pc, lockVars, sessVars, err>>

\* One `absconda build` command: the options on its command line, and the
\* arguments build_remote_image gets from them.
InitCli ==
    /\ defn \in PlainDefinitions
    /\ cli \in [pc : {"resolve"}, remote_builder : {"None", "gpu-builder"},
               remote_wait : -1..MaxWait, remote_off : BOOLEAN,
               loaded : {FALSE}, warned : {FALSE}, code : {"none"}]
    /\ args \in [push : BOOLEAN, shutdown_after : {cli.remote_off},
                wait_seconds : {cli.remote_wait}]
    /\ lock \in {NoFile, StaleFile}
    /\ Fresh
    /\ ctl = NoCtl

NextCli ==
    \/ ResolveRemoteOptions
    \/ LoadRemoteDefinition
    \/ CallBuildRemoteImage
    \/ \E p \in Solo : SessionStep(p)
    \/ BuildReturned

SpecCli == InitCli /\ [][NextCli]_vars

\* --------------------------------------------- reading the configuration
\* A string is the sequence of its characters.  The pattern of
\* _expand_env_vars is \$\{([A-Za-z_][A-Za-z0-9_]*)(\?)?}.
Letters == {"A", "B", "x", "_"}
Digits == {"1"}

\* The index of the last character of the longest run of name characters that
\* starts at k (the greedy [A-Za-z0-9_]*).
RECURSIVE NameEnd(_, _)
NameEnd(s, k) ==
    IF k + 1 <= Len(s) /\ s[k + 1] \in Letters \cup Digits
    THEN NameEnd(s, k + 1) ELSE k

\* The match of the pattern that starts at index i of s, last = 0 when none.
MatchAt(s, i) ==
    IF i + 3 <= Len(s) /\ s[i] = "$" /\ s[i + 1] = "{" /\ s[i + 2] \in Letters
    THEN LET j == NameEnd(s, i + 2)
         IN  IF j + 1 <= Len(s) /\ s[j + 1] = "}"
             THEN [last |-> j + 1, name |-> SubSeq(s, i + 2, j), required |-> FALSE]
             ELSE IF j + 2 <= Len(s) /\ s[j + 1] = "?" /\ s[j + 2] = "}"
             THEN [last |-> j + 2, name |-> SubSeq(s, i + 2, j), required |-> TRUE]
             ELSE [last |-> 0, name |-> <<>>, required |-> FALSE]
    ELSE [last |-> 0, name |-> <<>>, required |-> FALSE]

\* os.environ.get(var_name): env.set holds the names that are set.
IsSet(env, name) == name \in env.set

\* Variant: an unset variable is replaced by the empty string.
ReplacerEmptyWhenUnset(env, name, text) ==
    IF IsSet(env, name) THEN env.value[name] ELSE <<>>

\* replacer, lines 289-297, when it does not raise: the value, or the text of
\* the match when the variable is not set.
Replacer(env, name, text) ==
    IF IsSet(env, name) THEN env.value[name] ELSE text

\* re.sub over s from index i on: the matches are replaced from left to right,
\* the first required variable that is not set is raised (err: its name).
RECURSIVE SubFrom(_, _, _)
SubFrom(s, i, env) ==
    IF i > Len(s) THEN [err |-> <<>>, out |-> <<>>]
    ELSE LET m == MatchAt(s, i)
         IN  IF m.last = 0
             THEN LET rest == SubFrom(s, i + 1, env)
                  IN  [err |-> rest.err, out |-> <<s[i]>> \o rest.out]
             ELSE IF m.required /\ ~IsSet(env, m.name)
             THEN [err |-> m.name, out |-> <<>>]
             ELSE LET rest == SubFrom(s, m.last + 1, env)
                  IN  [err |-> rest.err,
                       out |-> Replacer(env, m.name, SubSeq(s, i, m.last)) \o rest.out]

\* A configuration value: a string, a list, a mapping (its items in the order
\* of the file, each under its key) or anything else (number, boolean, null).
\* A key of a mapping is a string or, as YAML reads 123:, a number.
StrKey(text) == [text |-> text, is_str |-> TRUE]
IntKey(text) == [text |-> text, is_str |-> FALSE]
NoKey == StrKey("")
Str(s) == [kind |-> "str", key |-> NoKey, s |-> s, items |-> <<>>]
Other == [kind |-> "other", key |-> NoKey, s |-> <<>>, items |-> <<>>]
Null == [kind |-> "null", key |-> NoKey, s |-> <<>>, items |-> <<>>]
ListOf(items) == [kind |-> "list", key |-> NoKey, s |-> <<>>, items |-> items]
MapOf(items) == [kind |-> "map", key |-> NoKey, s |-> <<>>, items |-> items]
Keyed(k, obj) == [obj EXCEPT !.key = k]

\* _expand_env_vars, lines 282-305: strings are substituted, lists and
\* mappings rebuilt item by item (keys are kept as they are), anything else is
\* returned as it is.
RECURSIVE ExpandEnvVars(_, _)
RECURSIVE ExpandItems(_, _, _)
ExpandItems(items, i, env) ==
    IF i > Len(items) THEN [err |-> <<>>, vals |-> <<>>]
    ELSE LET first == ExpandEnvVars(items[i], env)
         IN  IF first.err # <<>> THEN [err |-> first.err, vals |-> <<>>]
             ELSE LET rest == ExpandItems(items, i + 1, env)
                  IN  [err |-> rest.err,
                       vals |-> <<Keyed(items[i].key, first.val)>> \o rest.vals]

ExpandEnvVars(obj, env) ==
    CASE obj.kind = "str" ->
            LET r == SubFrom(obj.s, 1, env)
            IN  [err |-> r.err, val |-> [obj EXCEPT !.s = r.out]]
      [] obj.kind \in {"list", "map"} ->
            LET r == ExpandItems(obj.items, 1, env)
            IN  [err |-> r.err, val |-> [obj EXCEPT !.items = r.vals]]
      [] OTHER -> [err |-> <<>>, val |-> obj]

\* The strings of the configuration that are tried: placeholders alone, inside
\* text, two in one string, and texts the pattern does not match.
TestStrings ==
    { <<"x">>,
      <<"$", "{", "A", "}">>,
      <<"$", "{", "A", "?", "}">>,
      <<"x", "$", "{", "A", "}", "x">>,
      <<"x", "$", "{", "B", "?", "}">>,
      <<"$", "{", "A", "1", "}">>,
      <<"$", "{", "A", "}", "$", "{", "B", "?", "}">>,
      <<"$", "{", "B", "?", "}", "$", "{", "A", "?", "}">>,
      <<"$", "A">>,
      <<"$", "{", "1", "A", "}">>,
      <<"$", "{", "A">>,
      <<"$", "{", "}">>,
      <<"$", "{", "A", "?", "?", "}">>,
      <<"$", "$", "{", "_", "x", "}", "}">> }

\* The environments that are tried: A and B set or not; the value of A may be
\* empty or look like a placeholder itself.
Environments ==
    { [set |-> S, value |-> [n \in {<<"A">>, <<"B">>} |-> IF n = <<"A">> THEN a ELSE <<"w">>]] :
        S \in SUBSET {<<"A">>, <<"B">>},
        a \in {<<"v">>, <<>>, <<"$", "{", "B", "?", "}">>} }

\* The values up to a depth of nesting: a string, or a list or a mapping that
\* holds a shallower value after another item.
RECURSIVE Values(_)
Values(depth) ==
    IF depth = 0 THEN {Str(t) : t \in TestStrings}
    ELSE LET inner == Values(depth - 1)
         IN  {Str(t) : t \in TestStrings}
             \cup {ListOf(<<Str(<<"x">>), v>>) : v \in inner}
             \cup {MapOf(<<Keyed(StrKey("port"), Other), Keyed(StrKey("cmd"), v)>>) :
                     v \in inner}

\* The builders sections that are tried, in the order of the file: any
\* non-empty choice of the builders gpu, 123 and cpu, each a mapping, or gpu
\* given without a value and cpu as a scalar.
BuilderSections ==
    LET entry == MapOf(<<Keyed(StrKey("host"), Str(<<"x">>))>>)
        full(odd) ==
            << Keyed(StrKey("gpu"), IF odd THEN Null ELSE entry),
               Keyed(IntKey("123"), entry),
               Keyed(StrKey("cpu"), IF odd THEN Other ELSE entry) >>
    IN  { MapOf(SelectSeq(full(odd), LAMBDA item : item.key \in K)) :
            odd \in BOOLEAN,
            K \in (SUBSET {StrKey("gpu"), IntKey("123"), StrKey("cpu")}) \ {{}} }

\* sorted() on the names that occur: their order by code point.
NameOrder == <<"cpu", "gpu", "tpu">>

\* _read_remote_yaml, lines 320-321: the loaded data go through
\* _expand_env_vars; the RemoteConfigError of a required variable that is
\* not set names the variable.
ReadRemoteYaml ==
    /\ conf.pc = "expand"
    /\ LET r == ExpandEnvVars(conf.data, conf.env)
       IN  conf' = [conf EXCEPT !.pc = "done",
                                !.err = IF r.err # <<>> THEN "RemoteConfigError" ELSE "none",
                                !.named = r.err,
                                !.val = r.val]
    /\ UNCHANGED <<cfgVars, cli, ctl, lock, pc, lockVars, sessVars, err>>

\* ', '.join(sorted(builders)): the names in order; a key that is not a string
\* makes sorted() or join() raise TypeError.
Available(builders) ==
    IF \A i \in 1..Len(builders.items) : builders.items[i].key.is_str
    THEN [err |-> "RemoteConfigError",
          names |-> SelectSeq(NameOrder,
                              LAMBDA n : \E i \in 1..Len(builders.items) :
                                             builders.items[i].key = StrKey(n))]
    ELSE [err |-> "TypeError", names |-> <<>>]

\* load_remote_definition, lines 73-82, on the builders section conf.data:
\* builders.get(name) is None for a name that is absent or has no value.
LoadDefinition ==
    /\ conf.pc = "load"
    /\ LET items == conf.data.items
           hit == {i \in 1..Len(items) : items[i].key = StrKey(conf.name)}
           raw == IF hit = {} THEN Null ELSE items[CHOOSE i \in hit : TRUE]
       IN  CASE raw.kind = "null" ->
                  conf' = [conf EXCEPT !.pc = "done", !.reason = "not_found",
                                       !.err = Available(conf.data).err,
                                       !.available = Available(conf.data).names]
             [] raw.kind = "map" ->
                  \E valid \in BOOLEAN :
                     conf' = [conf EXCEPT !.pc = "done",
                                          !.reason = IF valid THEN "" ELSE "invalid",
                                          !.err = IF valid THEN "none"
                                                  ELSE "RemoteConfigError",
                                          !.val = raw]
             [] OTHER ->
                  conf' = [conf EXCEPT !.pc = "done", !.reason = "not_mapping",
                                       !.err = "RemoteConfigError"]
    /\ UNCHANGED <<cfgVars, cli, ctl, lock, pc, lockVars, sessVars, err>>

\* One reading of the configuration: the interpolation of a value under an
\* environment, or the lookup of a builder name in a builders section.
InitConfig ==
    /\ defn \in {d \in PlainDefinitions : ~d.start_command /\ ~d.stop_command}
    /\ args \in [push : {FALSE}, shutdown_after : {FALSE}, wait_seconds : {1}]
    /\ lock = NoFile
    /\ Idle
    /\ cli = NoCli
    /\ ctl = NoCtl
    /\ conf \in
         {[pc |-> "expand", op |-> "expand", env |-> e, data |-> v, name |-> "",
           err |-> "none", named |-> <<>>, val |-> Null, available |-> <<>>,
           reason |-> ""] : e \in Environments, v \in Values(MaxDepth)}
         \cup
         {[pc |-> "load", op |-> "load",
           env |-> [set |-> {}, value |-> [v \in {<<"A">>, <<"B">>} |-> <<>>]],
           data |-> b, name |-> n,
           err |-> "none", named |-> <<>>, val |-> Null, available |-> <<>>,
           reason |-> ""] : b \in BuilderSections, n \in {"cpu", "gpu", "tpu"}}

NextConfig ==
    \/ ReadRemoteYaml
    \/ LoadDefinition

SpecConfig == InitConfig /\ [][NextConfig]_vars

\* ------------------------------------------------------------- vocabulary
\* The positions of build_remote_image inside the `with _RemoteLock(...)` body,
\* up to and including the call of __exit__.
InWith == {"start", "settle", "package", "ensure_workspace", "upload", "extract",
           "build", "cleanup_remote", "session_stop", "cleanup_local", "shutdown",
           "lock_exit"}

\* The lock file is there and the process that created it is not running.
Orphaned == lock.exists /\ lock.creator = 0

\* p has returned from _RemoteLock.__enter__ and has not yet run __exit__.
Holds(p) == acquired[p] /\ pc[p] \in InWith

\* The positions at which execute_build has returned or raised.
AfterExecuteBuild == {"cleanup_local", "shutdown", "lock_exit", "returned"}

Launched(p, step) == \E i \in 1..Len(log[p]) : log[p][i].step = step

Failed(p, step) == \E i \in 1..Len(log[p]) : log[p][i].step = step /\ ~log[p][i].ok

\* The session step whose failure execute_build raised first ("none": no step failed).
FirstSessionFailure(p) ==
    IF \E i \in 1..Len(log[p]) :
          log[p][i].step \in {"ensure_workspace", "upload", "extract", "build"}
          /\ ~log[p][i].ok
    THEN LET i == CHOOSE j \in 1..Len(log[p]) :
                     /\ log[p][j].step \in {"ensure_workspace", "upload", "extract", "build"}
                     /\ ~log[p][j].ok
         IN  log[p][i].step
    ELSE "none"

\* ------------------------------------------------------------------ claims
\* C1: at no instant have two processes both acquired the lock (returned from
\* __enter__ without yet having run __exit__).
C1_MutualExclusion == \A p, q \in Procs : Holds(p) /\ Holds(q) => p = q

\* One process holds the lock while another found the file present.
C1_Witness == \E p, q \in Procs : p # q /\ Holds(p) /\ Launched(p, "build") /\ pc[q] = "busy"

\* C2: once the lock is acquired, the lock file this call created is gone when
\* the call returns or raises, and no path leaves the `with` body other than
\* through __exit__.
C2_LockRemovedOnReturn ==
    \A p \in Procs :
        /\ acquired[p] => pc[p] \in InWith \cup {"returned"}
        /\ pc[p] = "returned" /\ acquired[p] => ~(lock.exists /\ lock.creator = p)

\* A call that acquired the lock has raised the stop command's error after a
\* failed build and a failed remote cleanup.
C2_Witness ==
    \E p \in Procs :
        /\ pc[p] = "returned" /\ acquired[p]
        /\ Failed(p, "build") /\ Failed(p, "cleanup_remote") /\ err[p] = "session_stop"

\* C3: every subprocess is launched while the call holds the lock, and the call
\* still holds it when the subprocess has exited.
C3_SubprocessUnderLock ==
    [][\A p \in Procs : Len(log'[p]) > Len(log[p]) => Holds(p) /\ Holds(p)']_vars

\* The shutdown_after stop command has run and the lock file is still there.
C3_Witness ==
    \E p \in Procs :
        /\ Holds(p) /\ pc[p] = "lock_exit" /\ Launched(p, "shutdown_stop")
        /\ lock.exists /\ lock.creator = p

C5_CleanupAfterAnyFailure ==
    \A p \in Procs :
        pc[p] \in AfterExecuteBuild /\ FirstSessionFailure(p) # "none" =>
            Launched(p, "cleanup_remote")

\* C6 as stated: with a stop command configured, every build attempt that
\* reached the remote host is followed by the stop command before execute_build
\* is left.
C6_StopAfterEveryAttempt ==
    \A p \in Procs :
        pc[p] \in AfterExecuteBuild /\ defn.stop_command /\ Launched(p, "ensure_workspace") =>
            Launched(p, "session_stop")

\* C7 as stated: when the stop command of execute_build fails, the call ends as
\* it would have without that failure: with the first failed session step's
\* error, or successfully.
C7_StopFailureOnlyWarns ==
    \A p \in Procs :
        pc[p] = "returned" /\ Failed(p, "session_stop") =>
            err[p] = FirstSessionFailure(p)

C9_NoArchiveLeftBehind == \A p \in Procs : pc[p] = "returned" => ~tarball_file[p]

\* C10: no start command, no stop command, push = false and every command
\* succeeding: exactly five subprocesses, in this order, the build without a push
\* step.
C10_FiveCommandsInOrder ==
    \A p \in Procs :
        ( /\ pc[p] = "returned" /\ err[p] = "none"
          /\ ~defn.start_command /\ ~defn.stop_command /\ ~args.push
          /\ \A i \in 1..Len(log[p]) : log[p][i].ok ) =>
            /\ Len(log[p]) = 5
            /\ [i \in 1..5 |-> log[p][i].step] =
                  <<"ensure_workspace", "upload", "extract", "build", "cleanup_remote">>
            /\ [i \in 1..5 |-> log[p][i].cmd.tool] = <<"ssh", "scp", "ssh", "ssh", "ssh">>
            /\ log[p][1].cmd.payload = <<"set -euo pipefail", "mkdir -p workspace">>
            /\ log[p][3].cmd.payload =
                  <<"set -euo pipefail", "mkdir -p remote_dir",
                    "tar -xzf remote_tar -C remote_dir", "rm -f remote_tar">>
            /\ log[p][4].cmd.payload =
                  <<"set -euo pipefail", "cd remote_dir", "docker build -t image_ref">>
            /\ log[p][5].cmd.payload = <<"rm -rf remote_dir remote_tar">>

\* Such a call has returned, here with shutdown_after requested.
C10_Witness ==
    \E p \in Procs :
        /\ pc[p] = "returned" /\ err[p] = "none" /\ Len(log[p]) = 5
        /\ ~defn.start_command /\ ~defn.stop_command /\ ~args.push /\ args.shutdown_after
        /\ \A i \in 1..Len(log[p]) : log[p][i].ok

\* C11: a push step occurs only when push is requested, only inside the one
\* build command, as the step chained right after the image build; with push
\* requested the build command carries it; no other subprocess is added.
C11_PushChainedInBuild ==
    \A p \in Procs : \A i \in 1..Len(log[p]) :
        LET e == log[p][i]
            n == Len(e.cmd.payload)
            hasPush == \E k \in 1..n : e.cmd.payload[k] = "docker push image_ref"
        IN  /\ hasPush =>
                /\ args.push /\ e.step = "build" /\ n >= 2
                /\ e.cmd.payload[n] = "docker push image_ref"
                /\ e.cmd.payload[n - 1] = "docker build -t image_ref"
                /\ \A j \in 1..Len(log[p]) : log[p][j].step = "build" => j = i
            /\ e.step = "build" /\ args.push => hasPush
            /\ e.step \in {"start", "ensure_workspace", "upload", "extract", "build",
                           "cleanup_remote", "session_stop", "shutdown_stop"}

\* A call with push requested has run its build command and returned.
C11_Witness ==
    \E p \in Procs :
        /\ args.push /\ pc[p] = "returned" /\ err[p] = "none" /\ Launched(p, "build")

\* C12: when the holder releases the lock and the lock file is already gone
\* (an operator removed it while the build ran), the release completes: nothing
\* is raised (the pending outcome of build_remote_image stays what it was), the
\* file is not created again, and no command is launched and no warning added.
C12_ReleaseOfAbsentFile ==
    [][\A p \in Procs :
          (pc[p] = "lock_exit" /\ pc'[p] # "lock_exit" /\ acquired[p] /\ ~lock.exists)
              => /\ pc'[p] = "returned"
                 /\ err'[p] = err[p]
                 /\ ~lock'.exists
                 /\ log'[p] = log[p]
                 /\ warnings'[p] = warnings[p]]_vars

\* A build whose lock file was removed under it has returned, successfully.
C12_Witness ==
    \E p \in Procs :
        /\ pc[p] = "returned"
        /\ acquired[p]
        /\ exit_result[p] = "absent"
        /\ err[p] = "none"
        /\ Launched(p, "build")

\* C13: no step of check_remote_status acquires the lock or creates, changes or
\* removes the lock file, whatever the state it is called in, a running build
\* that holds the lock included: the file and the holder stay as they were.
C13_StatusLeavesLockAlone ==
    [][(ctl' # ctl /\ ctl'.op = "status")
          => (lock' = lock /\ acquired' = acquired /\ pc' = pc)]_vars

\* A status query has completed while a build holds the lock and runs its
\* build command: the lock file still carries the builder's token.
C13_Witness ==
    /\ ctl.pc = "done" /\ ctl.op = "status"
    /\ ctl.busy /\ ctl.lock_owner = Token(1)
    /\ Holds(1) /\ pc[1] = "cleanup_remote"
    /\ lock.exists /\ lock.content = Token(1)

\* C14: check_remote_status returns a RemoteStatus and raises nothing, whatever
\* the probe and the health command do (exit zero, exit non-zero, executable
\* missing): reachable tells whether the probe succeeded and ssh_error is set
\* exactly when it did not; with a health command health_ok tells whether it
\* succeeded and health_error is set when it did not; without one health_ok
\* and health_error are None and no health command is launched.
C14_StatusNeverRaises ==
    (ctl.pc = "done" /\ ctl.op = "status") =>
        /\ ctl.err = "none"
        /\ Len(ctl.log) >= 1 /\ ctl.log[1].step = "probe"
        /\ ctl.reachable <=> ctl.log[1].outcome = "ok"
        /\ ctl.reachable <=> ctl.ssh_error = "None"
        /\ IF defn.health_command
           THEN /\ Len(ctl.log) = 2 /\ ctl.log[2].step = "health"
                /\ ctl.health_ok = (IF ctl.log[2].outcome = "ok" THEN "True" ELSE "False")
                /\ ctl.health_ok = "True" <=> ctl.health_error = "None"
           ELSE /\ Len(ctl.log) = 1
                /\ ctl.health_ok = "None" /\ ctl.health_error = "None"

\* A status was returned although the probe's executable was missing and the
\* health command exited non-zero.
C14_Witness ==
    /\ ctl.pc = "done" /\ ctl.op = "status" /\ ctl.err = "none"
    /\ Len(ctl.log) = 2
    /\ ctl.log[1].outcome = "missing" /\ ctl.log[2].outcome = "nonzero"
    /\ ~ctl.reachable /\ ctl.health_ok = "False"

\* C15: busy is the existence of the lock file at the moment it is looked at;
\* when busy, lock_owner is the content of the file at the moment it is read,
\* and None when the file is then empty, unreadable or already removed; when
\* not busy lock_owner is None; neither value changes afterwards and nothing
\* is raised.
C15_BusyAndOwnerFollowFile ==
    [][/\ (ctl.pc = "off" /\ ctl'.op = "status") =>
              /\ ctl'.busy = lock.exists
              /\ ctl'.lock_owner = "None"
              /\ ctl'.pc = IF lock.exists THEN "read" ELSE "probe"
       /\ (ctl.pc = "read" /\ ctl' # ctl) =>
              /\ ctl'.pc = "probe" /\ ctl'.err = "none" /\ ctl'.busy
              /\ ctl'.lock_owner =
                    IF lock.exists /\ lock.content # "" /\ ~ctl'.unreadable
                    THEN lock.content ELSE "None"
       /\ (ctl.pc \in {"probe", "health"} /\ ctl' # ctl) =>
              /\ ctl'.busy = ctl.busy
              /\ ctl'.lock_owner = ctl.lock_owner]_vars

\* The lock file was there when its existence was checked and was released
\* by the build before it was read: busy with an unknown owner.
C15_Witness ==
    /\ ctl.pc = "probe" /\ ctl.op = "status"
    /\ ctl.busy /\ ctl.lock_owner = "None" /\ ~ctl.unreadable
    /\ ~lock.exists

\* C16: provision, start and stop each fail with a RemoteConfigError when the
\* definition lacks their command, launching nothing (and start does not wait);
\* with the command present exactly that command is launched, once.
C16_CommandRequired ==
    (ctl.pc = "done" /\ ctl.op \in {"provision", "start", "stop"}) =>
        LET present == CASE ctl.op = "provision" -> defn.provision_command
                         [] ctl.op = "start" -> defn.start_command
                         [] OTHER -> defn.stop_command
            command == CASE ctl.op = "provision" -> <<"provision_command">>
                         [] ctl.op = "start" -> <<"start_command">>
                         [] OTHER -> <<"stop_command">>
        IN  IF present
            THEN /\ Len(ctl.log) = 1
                 /\ ctl.log[1].cmd.tool = "local"
                 /\ ctl.log[1].cmd.payload = command
                 /\ ctl.err # "RemoteConfigError"
            ELSE /\ ctl.err = "RemoteConfigError"
                 /\ ctl.log = <<>>
                 /\ ~ctl.settled

\* start was refused for a definition without a start_command.
C16_Witness ==
    /\ ctl.pc = "done" /\ ctl.op = "start"
    /\ ~defn.start_command /\ ctl.err = "RemoteConfigError"

\* C17: the transport follows the metadata alone: with both "project" and
\* "zone" among its keys every remote-shell command is `gcloud compute ssh`
\* and the transfer `gcloud compute scp`, addressed to the host without the
\* user; otherwise they are ssh and scp addressed to ssh_target; the commands
\* of one build, and of a status query, never mix the two.
C17_TransportFollowsMetadata ==
    LET relay == {"project", "zone"} \subseteq defn.metadata
        host == <<defn.ssh_target[Len(defn.ssh_target)]>>
        Right(e) ==
            \/ e.cmd.tool = "local"
            \/ /\ e.cmd.tool = (CASE relay /\ e.step = "upload" -> "gcloud compute scp"
                                  [] relay /\ e.step # "upload" -> "gcloud compute ssh"
                                  [] ~relay /\ e.step = "upload" -> "scp"
                                  [] OTHER -> "ssh")
               /\ e.cmd.target = (IF relay THEN host ELSE defn.ssh_target)
    IN  /\ \A p \in Procs : \A i \in 1..Len(log[p]) :
              /\ Right(log[p][i])
              /\ log[p][i].cmd.tool = "local" <=>
                    log[p][i].step \in {"start", "session_stop", "shutdown_stop"}
        /\ \A i \in 1..Len(ctl.log) :
              /\ Right(ctl.log[i])
              /\ ctl.log[i].cmd.tool = "local" <=> ctl.log[i].step = "health"

\* A build through the relay has gone through all its remote commands, for a
\* target given as user@host.
C17_Witness ==
    /\ {"project", "zone"} \subseteq defn.metadata
    /\ defn.ssh_target = <<"user", "host">>
    /\ pc[1] = "returned" /\ err[1] = "none"
    /\ Launched(1, "ensure_workspace") /\ Launched(1, "upload")
    /\ Launched(1, "build") /\ Launched(1, "cleanup_remote")

\* C18: nothing is retried but the acquisition of the lock: within one call no
\* command site launches twice, so each of the mkdir, upload, extract and build
\* commands is launched at most once, and once one of these four has failed
\* none of the four is launched any more.
C18_NoRetryButAcquisition ==
    \A p \in Procs : \A i, j \in 1..Len(log[p]) :
        LET four == {"ensure_workspace", "upload", "extract", "build"}
        IN  i < j =>
              /\ log[p][i].step # log[p][j].step
              /\ (log[p][i].step \in four /\ ~log[p][i].ok) => log[p][j].step \notin four

\* A call that had to try the lock more than once, then saw its extract
\* command fail, has returned.
C18_Witness ==
    \E p \in Procs :
        /\ pc[p] = "returned" /\ acquired[p] /\ attempts[p] >= 2
        /\ Launched(p, "upload") /\ Failed(p, "extract") /\ ~Launched(p, "build")

\* C19: when the context directory does not exist build_remote_image raises a
\* RemoteError straight from its check: no attempt on the lock was made, the
\* lock file is what it was, and no subprocess was launched.  The check is
\* left either that way or, with no error, towards the first lock attempt.
C19_MissingContextBeforeLock ==
    [][\A p \in Procs :
          (pc[p] = "check_context" /\ pc'[p] # "check_context") =>
              \/ /\ pc'[p] = "try" /\ err'[p] = "none"
                 /\ lock' = lock /\ attempts'[p] = 0
              \/ /\ pc'[p] = "returned"
                 /\ err'[p] = "context_missing" /\ ErrKind(err'[p]) = "RemoteError"
                 /\ lock' = lock
                 /\ attempts'[p] = 0 /\ ~acquired'[p]
                 /\ log'[p] = <<>>]_vars

\* A call was refused for its missing context while another call holds the
\* lock, whose file is untouched.
C19_Witness ==
    \E p, q \in Procs :
        /\ pc[p] = "returned" /\ err[p] = "context_missing"
        /\ attempts[p] = 0 /\ log[p] = <<>>
        /\ Holds(q) /\ lock.exists /\ lock.content = Token(q)

\* C20: with a remote builder selected and a wait budget of zero or less the
\* command ends in _resolve_remote_options with exit code 1: the definition is
\* never loaded, build_remote_image is never called, so no attempt on the lock
\* is made, the lock file stays as it was found, and no subprocess is launched.
C20_NonPositiveWaitRejected ==
    (cli.remote_builder # "None" /\ cli.remote_wait <= 0) =>
        /\ cli.pc \in {"resolve", "done"}
        /\ cli.pc = "done" => cli.code = "1"
        /\ ~cli.loaded
        /\ pc[1] = "idle" /\ attempts[1] = 0 /\ ~acquired[1]
        /\ lock \in {NoFile, StaleFile}
        /\ log[1] = <<>>

\* The command has ended with exit code 1 for --remote-wait 0.
C20_Witness ==
    /\ cli.pc = "done" /\ cli.code = "1"
    /\ cli.remote_builder # "None" /\ cli.remote_wait = 0
    /\ ~cli.loaded /\ attempts[1] = 0

\* C23: the four session commands mkdir, upload, extract, build are launched
\* in that order, each one only when the one before it was launched earlier in
\* the same call and exited with zero; after one of them has failed only
\* cleanup and stop commands are launched.
C23_SessionStepsGated ==
    LET four == <<"ensure_workspace", "upload", "extract", "build">>
        after == {"cleanup_remote", "session_stop", "shutdown_stop"}
    IN  \A p \in Procs : \A j \in 1..Len(log[p]) :
          /\ \A k \in 2..4 :
                log[p][j].step = four[k] =>
                    \E i \in 1..(j - 1) : log[p][i].step = four[k - 1] /\ log[p][i].ok
          /\ \A i \in 1..(j - 1) :
                (\E k \in 1..4 : log[p][i].step = four[k]) /\ ~log[p][i].ok
                    => log[p][j].step \in after

\* A call whose build command failed after three successful steps has gone on
\* to its cleanup.
C23_Witness ==
    \E p \in Procs :
        /\ pc[p] = "returned"
        /\ Failed(p, "build") /\ Launched(p, "cleanup_remote")
        /\ ~Failed(p, "extract") /\ ~Failed(p, "upload") /\ ~Failed(p, "ensure_workspace")

\* C24: the first create attempt is made at once on entry (elapsed 0), the
\* n-th attempt after exactly n-1 sleeps of 2 seconds, one sleep after each
\* failed attempt; the busy notice is printed when the first attempt fails and
\* not again at later polls, and not at all when the first attempt succeeds.
C24_PollingAndNotice ==
    \A p \in Procs :
        /\ notices[p] \in {0, 1}
        /\ pc[p] \in {"idle", "check_context"} => attempts[p] = 0 /\ notices[p] = 0
        /\ pc[p] = "try" =>
              /\ elapsed[p] = 2 * attempts[p]
              /\ notices[p] = IF attempts[p] = 0 THEN 0 ELSE 1
        /\ pc[p] \in {"write_token", "busy"} =>
              /\ attempts[p] >= 1
              /\ elapsed[p] = 2 * (attempts[p] - 1)
              /\ notices[p] = IF attempts[p] = 1 THEN 0 ELSE 1
        /\ pc[p] \in {"sleep", "timeout_read"} =>
              /\ attempts[p] >= 1
              /\ elapsed[p] = 2 * (attempts[p] - 1)
              /\ notices[p] = 1
        /\ acquired[p] => notices[p] = IF attempts[p] = 1 THEN 0 ELSE 1

\* A waiter whose second attempt failed as well has printed the notice once.
C24_Witness ==
    \E p \in Procs :
        pc[p] = "timeout_read" /\ attempts[p] = 2 /\ notices[p] = 1 /\ elapsed[p] = 2

\* C25: acquisition ends, with the lock or with the timeout.  The timeout is
\* raised only after a failed attempt made at elapsed >= W, so within one
\* polling interval after W and after at most ceil(W/2)+1 attempts; a waiter
\* whose attempt fails before W goes on to a later attempt, and an attempt
\* that finds no lock file acquires: a sole waiter gets a lock released
\* before W.
C25_AcquisitionTerminates ==
    /\ [](\A p \in Pair :
            /\ attempts[p] <= ((args.wait_seconds + 1) \div 2) + 1
            /\ pc[p] = "timeout_read" =>
                  /\ elapsed[p] >= args.wait_seconds
                  /\ elapsed[p] < args.wait_seconds + 2)
    /\ [][\A p \in Pair :
            /\ (pc[p] = "busy" /\ pc'[p] # "busy") =>
                  pc'[p] = IF elapsed[p] >= args.wait_seconds
                           THEN "timeout_read" ELSE "sleep"
            /\ (pc[p] = "sleep" /\ pc'[p] # "sleep") => pc'[p] = "try"
            /\ (pc[p] = "try" /\ pc'[p] # "try") =>
                  pc'[p] = IF lock.exists THEN "busy" ELSE "write_token"
            /\ (pc[p] = "write_token" /\ pc'[p] # "write_token") =>
                  pc'[p] = "start" /\ acquired'[p]]_vars
    /\ \A p \in Pair :
          (pc[p] = "try") ~> (pc[p] \in {"start", "returned"})

\* A waiter found the holder gone at its second attempt, made before its
\* budget of 2 seconds was exceeded, and acquired.
C25_Witness ==
    \E p \in Pair :
        /\ pc[p] = "start" /\ acquired[p]
        /\ attempts[p] = 2 /\ args.wait_seconds = 2
        /\ lock.content = Token(p)

\* C26: with a start command configured, packaging is reached only from the
\* end of the settle wait, and the settle wait only from a start command that
\* exited with zero; so every session step comes after start returned.  When
\* the start command fails the call goes straight to the release of the lock:
\* nothing is packaged and no other command is launched.
C26_StartBeforeSession ==
    /\ [][\A p \in Procs :
            /\ (pc[p] # "package" /\ pc'[p] = "package") =>
                  pc[p] = IF defn.start_command THEN "settle" ELSE "start"
            /\ (pc[p] # "settle" /\ pc'[p] = "settle") =>
                  /\ pc[p] = "start" /\ defn.start_command
                  /\ log'[p] = <<[step |-> "start", cmd |-> StartCmd, ok |-> TRUE]>>
            /\ (pc[p] = "start" /\ defn.start_command /\ pc'[p] \notin {"start", "settle"}) =>
                  /\ pc'[p] = "lock_exit"
                  /\ log'[p] = <<[step |-> "start", cmd |-> StartCmd, ok |-> FALSE]>>
                  /\ ErrKind(err'[p]) = "RemoteError"]_vars
    /\ [](\A p \in Procs :
            /\ ( /\ defn.start_command
                 /\ \/ tarball_file[p] \/ tarball_path[p]
                    \/ \E i \in 1..Len(log[p]) : log[p][i].step # "start" )
               => (log[p][1].step = "start" /\ log[p][1].ok)
            /\ Failed(p, "start") =>
                  /\ Len(log[p]) = 1 /\ ~tarball_file[p] /\ ~tarball_path[p]
                  /\ pc[p] \in {"lock_exit", "returned"}
                  /\ err[p] = "start")

\* A build is at its first remote command after a successful start.
C26_Witness ==
    \E p \in Procs :
        /\ defn.start_command /\ pc[p] = "ensure_workspace"
        /\ Len(log[p]) = 1 /\ log[p][1].step = "start" /\ log[p][1].ok

\* C27: no step of a process that fails to acquire (a failed create attempt,
\* the notice, the sleep, the read for the timeout message, the raise, the
\* exit of the process) changes the lock file or anything of another process:
\* a holder keeps its file with its token and goes on with its build.  The
\* process that timed out never held the lock and ran no __exit__ unlink.
C27_TimeoutLeavesLockFile ==
    /\ [][\A p \in Procs :
            ( \/ pc[p] = "try" /\ pc'[p] = "busy"
              \/ pc[p] \in {"busy", "sleep", "timeout_read"} /\ pc'[p] # pc[p]
              \/ pc[p] = "returned" /\ err[p] = "lock_timeout" /\ pc'[p] # pc[p] )
            => /\ lock' = lock
               /\ \A q \in Procs \ {p} :
                     /\ pc'[q] = pc[q] /\ acquired'[q] = acquired[q]
                     /\ err'[q] = err[q] /\ log'[q] = log[q]]_vars
    /\ [](\A p \in Procs :
            err[p] = "lock_timeout" =>
                ~acquired[p] /\ exit_result[p] = "" /\ log[p] = <<>>)

\* A waiter has timed out while the holder is at its build command, the lock
\* file still carrying the holder's token.
C27_Witness ==
    \E p, q \in Procs :
        /\ pc[p] = "returned" /\ err[p] = "lock_timeout"
        /\ Holds(q) /\ pc[q] = "build"
        /\ lock.exists /\ lock.content = Token(q)

\* C29 as stated: with a stop command configured, one call of
\* build_remote_image launches the stop command at most once, whatever
\* shutdown_after is and however the build ended.
C29_StopAtMostOnce ==
    \A p \in Procs :
        defn.stop_command =>
            Cardinality({i \in 1..Len(log[p]) : log[p][i].cmd = StopCmd}) <= 1

\* C28 as stated: a release removes only the lock file the releasing process
\* created itself: when the file now at lock_file was created by another
\* process (the releaser's own file having been removed by hand meanwhile),
\* the release leaves it in place, so that its creator stays protected.
C28_ReleaseOnlyOwnLock ==
    [][\A p \in Pair :
          (pc[p] = "lock_exit" /\ pc'[p] = "returned" /\ lock.exists /\ lock.creator # p)
              => lock' = lock]_vars

\* C30: a create attempt acquires exactly when no lock file is there at that
\* instant, and a failed one leaves the file as it is.  A lock file left by a
\* killed holder is changed by nothing but its removal from outside; as long
\* as it is there no call holds the lock, launches a command or returns
\* otherwise than with the timeout (or for its missing context).
C30_StaleLockNeverReclaimed ==
    /\ [][\A p \in Procs :
            (pc[p] = "try" /\ pc'[p] # "try") =>
                /\ pc'[p] = IF lock.exists THEN "busy" ELSE "write_token"
                /\ lock.exists => lock' = lock]_vars
    /\ [][(Orphaned /\ lock' # lock) => (lock' = NoFile /\ pc' = pc)]_vars
    /\ [](Orphaned =>
            \A p \in Procs :
                /\ ~acquired[p] /\ log[p] = <<>>
                /\ pc[p] \notin InWith \cup {"write_token"}
                /\ pc[p] = "returned" => err[p] \in {"lock_timeout", "context_missing"})

\* The holder was killed while it held the lock; a later call on the same
\* lock_file has timed out, naming the dead owner.
C30_Witness ==
    /\ lock.exists /\ lock.creator = 0 /\ lock.content = Token(1)
    /\ pc[1] = "returned" /\ err[1] = "lock_timeout" /\ owner[1] = Token(1)

\* ---------------------------------------------------------------- C22
\* What the pattern of _expand_env_vars, line 299, takes for a variable name.
ValidName(n) ==
    /\ Len(n) > 0
    /\ n[1] \in Letters
    /\ \A i \in 1..Len(n) : n[i] \in Letters \cup Digits

\* The text of a placeholder for a name: ${NAME} or ${NAME?}.
Placeholder(name, required) ==
    <<"$", "{">> \o name \o (IF required THEN <<"?">> ELSE <<>>) \o <<"}">>

\* The placeholders that occur in a string, each as the pair of its name and
\* whether it carries the question mark.
PlaceholdersIn(s) ==
    { ph \in { [name |-> SubSeq(s, i + 2, j), required |-> r] :
                 i \in 1..Len(s), j \in 1..Len(s), r \in BOOLEAN } :
        /\ ValidName(ph.name)
        /\ \E i \in 1..Len(s) :
              LET text == Placeholder(ph.name, ph.required)
              IN  /\ i + Len(text) - 1 <= Len(s)
                  /\ SubSeq(s, i, i + Len(text) - 1) = text }

\* The strings held anywhere in a value.
RECURSIVE LeafStrings(_)
LeafStrings(obj) ==
    CASE obj.kind = "str" -> {obj.s}
      [] obj.kind \in {"list", "map"} ->
            UNION {LeafStrings(obj.items[i]) : i \in 1..Len(obj.items)}
      [] OTHER -> {}

\* What stands for a placeholder in the result when no error is raised.
Substitute(ph, env) ==
    IF ph.name \in env.set THEN env.value[ph.name]
    ELSE Placeholder(ph.name, ph.required)

\* A string and its interpolation: one without a placeholder is unchanged; one
\* placeholder between plain texts, or two in a row, are each replaced by the
\* value of a set variable and kept as written for one that is not set.
StringInterpolated(s, t, env) ==
    LET phs == PlaceholdersIn(s)
    IN  /\ phs = {} => t = s
        /\ \A ph \in phs :
           \A pre \in {<<>>, <<"x">>, <<"$">>}, post \in {<<>>, <<"x">>, <<"}">>} :
              s = pre \o Placeholder(ph.name, ph.required) \o post
                 => t = pre \o Substitute(ph, env) \o post
        /\ \A ph1 \in phs, ph2 \in phs :
              s = Placeholder(ph1.name, ph1.required) \o Placeholder(ph2.name, ph2.required)
                 => t = Substitute(ph1, env) \o Substitute(ph2, env)

\* A value and its interpolation have the same shape and the same keys, and
\* every string in it is interpolated, whatever the depth.
RECURSIVE Interpolated(_, _, _)
Interpolated(obj, res, env) ==
    /\ res.kind = obj.kind
    /\ res.key = obj.key
    /\ CASE obj.kind = "str" -> StringInterpolated(obj.s, res.s, env)
         [] obj.kind \in {"list", "map"} ->
               /\ Len(res.items) = Len(obj.items)
               /\ \A i \in 1..Len(obj.items) :
                     Interpolated(obj.items[i], res.items[i], env)
         [] OTHER -> res = obj

\* C22: interpolation of a configuration value.  ${VAR} and ${VAR?} with VAR
\* set are replaced by the value of VAR; ${VAR} with VAR not set stays as
\* written; a ${VAR?} with VAR not set anywhere in the value, at any depth of
\* lists and mappings, raises a RemoteConfigError that names such a VAR, and
\* only that raises one.
C22_Interpolation ==
    (conf.pc = "done" /\ conf.op = "expand") =>
        LET unset == { ph.name : ph \in
                         { q \in UNION {PlaceholdersIn(s) : s \in LeafStrings(conf.data)} :
                             q.required /\ q.name \notin conf.env.set } }
        IN  /\ unset # {} => conf.err = "RemoteConfigError" /\ conf.named \in unset
            /\ unset = {} => /\ conf.err = "none"
                             /\ Interpolated(conf.data, conf.val, conf.env)

\* A ${A?} two levels down, in a mapping inside a list, with A not set: the
\* error names A.
C22_Witness ==
    /\ conf.pc = "done"
    /\ conf.op = "expand"
    /\ conf.data.kind = "list"
    /\ conf.data.items[2].kind = "map"
    /\ conf.data.items[2].items[2] = Keyed(StrKey("cmd"), Str(<<"$", "{", "A", "?", "}">>))
    /\ <<"A">> \notin conf.env.set
    /\ conf.err = "RemoteConfigError"
    /\ conf.named = <<"A">>

\* ---------------------------------------------------------------- C21
\* C21: for every builder name that is no key of the builders section,
\* load_remote_definition ends with a RemoteConfigError that lists the names
\* of the section, and no lock file is created and no command is run.
C21_AbsentNameListsAvailable ==
    LET items == conf.data.items
    IN  ( /\ conf.pc = "done"
          /\ conf.op = "load"
          /\ \A i \in 1..Len(items) : items[i].key.text # conf.name )
        => /\ conf.err = "RemoteConfigError"
           /\ conf.reason = "not_found"
           /\ {conf.available[i] : i \in 1..Len(conf.available)}
                 = {items[i].key.text : i \in 1..Len(items)}
           /\ lock = NoFile
           /\ \A p \in Procs : log[p] = <<>>
====
